---- MODULE Spec2Model ----
(***************************************************************************)
(* A model of ctrleditor/modblocks.py: the block parser (_parse_lines),    *)
(* the block store (ModelBlocks), its change log and replay_changes.       *)
(*                                                                         *)
(* Python lists are objects: two names can hold the same list, and an      *)
(* append through one is seen through the other.  The model therefore      *)
(* keeps an explicit heap.  A reference is the index of an object in one   *)
(* of the heap's tables:                                                   *)
(*   heap.lines[r]    a List[str]: one block occurrence, a list of lines   *)
(*   heap.occs[r]     a List[List[str]]: the occurrences held under a name *)
(*   heap.entries[r]  a ChangeLogEntry                                     *)
(*   heap.logs[r]     a List[ChangeLogEntry]                               *)
(*   heap.stores[r]   a ModelBlocks                                        *)
(* A str is a sequence of one-character strings, so that strip(),          *)
(* startswith() and split() are computed and not assumed.                  *)
(***************************************************************************)
EXTENDS Naturals, Sequences, FiniteSets

VARIABLES
    text,   \* the lines handed to _parse_lines (file.readlines())
    heap,   \* the objects allocated so far
    origin, \* per store, the store it was copied from (0: a parsed store)
    file,   \* the change-log file on disk: [exists, records]
    ret     \* the last call: its arguments and what the caller got back

vars == <<text, heap, origin, file, ret>>

----------------------------------------------------------------------------
(* Bounds of the model *)

MaxLen == 1
MaxHeap == 5
MaxSave == 2

----------------------------------------------------------------------------
(* Strings *)

Whitespace == {" ", "\n"}

LA == <<"$", "A", "\n">>
LB == <<" ", "$", "B", " ", "x", "\n">>
LX == <<"x", "\n">>
LY == <<" ", "y", "\n">>
LN == <<"\n">>

Lines == {LA, LB, LX}
WideLines == Lines \cup {LY, LN}

NameA == <<"$", "A">>
NameB == <<"$", "B">>
Names == {NameA, NameB}

Contents == {<<LA>>, <<LY, LX>>}

RECURSIVE lstrip(_)
lstrip(s) ==
    IF s = <<>> THEN s
    ELSE IF Head(s) \in Whitespace THEN lstrip(Tail(s)) ELSE s

RECURSIVE rstrip(_)
rstrip(s) ==
    IF s = <<>> THEN s
    ELSE IF s[Len(s)] \in Whitespace THEN rstrip(SubSeq(s, 1, Len(s) - 1)) ELSE s

strip(s) == rstrip(lstrip(s))

startswith(s, c) == Len(s) > 0 /\ s[1] = c

RECURSIVE take_word(_)
take_word(s) ==
    IF s = <<>> \/ Head(s) \in Whitespace THEN <<>>
    ELSE <<Head(s)>> \o take_word(Tail(s))

\* s.split()[0], for s holding a non-whitespace character
first_token(s) == take_word(lstrip(s))

RECURSIVE join(_)
join(ls) == IF ls = <<>> THEN <<>> ELSE Head(ls) \o join(Tail(ls))

----------------------------------------------------------------------------
(* The heap, and dict as an insertion-ordered list of items *)

EmptyHeap ==
    [lines |-> <<>>, occs |-> <<>>, entries |-> <<>>, logs |-> <<>>, stores |-> <<>>,
     widgets |-> <<>>]

has_key(d, k) == \E i \in 1..Len(d) : d[i].key = k

get(d, k) == d[CHOOSE i \in 1..Len(d) : d[i].key = k].val

\* the key is deleted and inserted again: an existing key moves to the end
set_item_move_last(d, k, v) ==
    Append(SelectSeq(d, LAMBDA e : e.key # k), [key |-> k, val |-> v])

\* d[k] = v: a new key goes last, an existing key keeps its place
set_item(d, k, v) ==
    IF has_key(d, k)
    THEN [i \in 1..Len(d) |-> IF d[i].key = k THEN [key |-> k, val |-> v] ELSE d[i]]
    ELSE Append(d, [key |-> k, val |-> v])

\* ModelBlocks(): both fields from their default factories
ModelBlocks(h) ==
    [h EXCEPT !.logs = Append(@, <<>>),
              !.stores = Append(@, [blocks |-> <<>>, change_log |-> Len(h.logs) + 1])]

\* a caller's new list of lines
new_list(h, content) == [h EXCEPT !.lines = Append(@, content)]

----------------------------------------------------------------------------
(* ModelBlocks *)

\* the new occurrence takes the place of the ones stored under the name
add_block_overwrite(h, s, block_name, block_content) ==
    LET h1 == [h EXCEPT !.occs = Append(@, <<block_content>>)]
    IN  [h1 EXCEPT !.stores[s].blocks = set_item(@, block_name, Len(h1.occs))]

\* block_content is a reference into heap.lines
add_block(h, s, block_name, block_content) ==
    LET h1 == IF has_key(h.stores[s].blocks, block_name) THEN h
              ELSE [h EXCEPT !.occs = Append(@, <<>>),
                             !.stores[s].blocks =
                                 set_item(@, block_name, Len(h.occs) + 1)]
        o  == get(h1.stores[s].blocks, block_name)
    IN  [h1 EXCEPT !.occs[o] = Append(@, block_content)]

\* datetime.now() is read as the number of entries logged before this one
log_change(h, s, block_name, original_content, updated_content) ==
    [h EXCEPT !.entries = Append(@, [timestamp       |-> Len(h.entries) + 1,
                                     block_name      |-> block_name,
                                     orginal_content |-> original_content,
                                     updated_content |-> updated_content]),
              !.logs[h.stores[s].change_log] = Append(@, Len(h.entries) + 1)]

\* the occurrences are replaced and nothing is logged
update_block_unlogged(h, s, block_name, new_content) ==
    IF has_key(h.stores[s].blocks, block_name)
    THEN [h   |-> [h EXCEPT !.occs = Append(@, <<new_content>>),
                            !.stores[s].blocks =
                                set_item(@, block_name, Len(h.occs) + 1)],
          err |-> "none"]
    ELSE [h |-> h, err |-> "ValueError"]

\* the entry is logged after the assignment, and reads the new list
update_block_logs_new(h, s, block_name, new_content) ==
    IF has_key(h.stores[s].blocks, block_name)
    THEN LET h1 == [h EXCEPT !.occs = Append(@, <<new_content>>),
                             !.stores[s].blocks =
                                 set_item(@, block_name, Len(h.occs) + 1)]
         IN  [h   |-> log_change(h1, s, block_name, Len(h.occs) + 1, new_content),
              err |-> "none"]
    ELSE [h |-> h, err |-> "ValueError"]

\* the occurrence list is emptied and refilled in place
update_block_in_place(h, s, block_name, new_content) ==
    IF has_key(h.stores[s].blocks, block_name)
    THEN LET orig_content == get(h.stores[s].blocks, block_name)
             h1 == [h EXCEPT !.occs[orig_content] = <<new_content>>]
         IN  [h   |-> log_change(h1, s, block_name, orig_content, new_content),
              err |-> "none"]
    ELSE [h |-> h, err |-> "ValueError"]

\* a missing block is created instead of refused
update_block_upsert(h, s, block_name, new_content) ==
    LET h0 == IF has_key(h.stores[s].blocks, block_name) THEN h
              ELSE [h EXCEPT !.occs = Append(@, <<>>),
                             !.stores[s].blocks =
                                 set_item(@, block_name, Len(h.occs) + 1)]
        orig_content == get(h0.stores[s].blocks, block_name)
        h1 == [h0 EXCEPT !.occs = Append(@, <<new_content>>),
                         !.stores[s].blocks =
                             set_item(@, block_name, Len(h0.occs) + 1)]
    IN  [h   |-> log_change(h1, s, block_name, orig_content, new_content),
         err |-> "none"]

update_block(h, s, block_name, new_content) ==
    IF has_key(h.stores[s].blocks, block_name)
    THEN LET orig_content == get(h.stores[s].blocks, block_name)
             h1 == [h EXCEPT !.occs = Append(@, <<new_content>>),
                             !.stores[s].blocks =
                                 set_item(@, block_name, Len(h.occs) + 1)]
         IN  [h   |-> log_change(h1, s, block_name, orig_content, new_content),
              err |-> "none"]
    ELSE [h |-> h, err |-> "ValueError"]

RECURSIVE render_contents(_, _, _)
render_contents(h, contents, i) ==
    IF i > Len(contents) THEN <<>>
    ELSE join(h.lines[contents[i]]) \o render_contents(h, contents, i + 1)

RECURSIVE render_items(_, _, _)
render_items(h, d, i) ==
    IF i > Len(d) THEN <<>>
    ELSE render_contents(h, h.occs[d[i].val], 1) \o <<"\n">> \o render_items(h, d, i + 1)

\* the separator after each name is left out
RECURSIVE render_items_no_sep(_, _, _)
render_items_no_sep(h, d, i) ==
    IF i > Len(d) THEN <<>>
    ELSE render_contents(h, h.occs[d[i].val], 1) \o render_items_no_sep(h, d, i + 1)

render_no_sep(h, s) == strip(render_items_no_sep(h, h.stores[s].blocks, 1))

render(h, s) == strip(render_items(h, h.stores[s].blocks, 1))

----------------------------------------------------------------------------
(* _parse_lines *)

\* current_block is <<>> for None (an empty name would be falsy as well);
\* block_content is a reference, 0 for the initial list, which is never stored
RECURSIVE parse_loop(_, _, _, _, _, _)
parse_loop(h, s, lines, i, current_block, block_content) ==
    IF i > Len(lines)
    THEN IF current_block # <<>>
         THEN add_block(h, s, current_block, block_content) ELSE h
    ELSE LET line == lines[i] IN
         IF startswith(strip(line), "$")
         THEN LET h1 == IF current_block # <<>>
                        THEN add_block(h, s, current_block, block_content) ELSE h
                  h2 == new_list(h1, <<line>>)
              IN  parse_loop(h2, s, lines, i + 1, first_token(strip(line)),
                             Len(h2.lines))
         ELSE IF current_block # <<>>
         THEN parse_loop([h EXCEPT !.lines[block_content] = Append(@, line)],
                         s, lines, i + 1, current_block, block_content)
         ELSE parse_loop(h, s, lines, i + 1, current_block, block_content)

\* the loop starts at the second line
parse_lines_skip_first(h, lines) ==
    parse_loop(ModelBlocks(h), Len(h.stores) + 1, lines, 2, <<>>, 0)

\* lines before the first marker are kept as a block of their own
parse_lines_preamble(h, lines) ==
    LET h0 == new_list(ModelBlocks(h), <<>>)
    IN  IF lines # <<>> /\ ~startswith(strip(lines[1]), "$")
        THEN parse_loop(h0, Len(h.stores) + 1, lines, 1, <<"$">>, Len(h0.lines))
        ELSE parse_loop(ModelBlocks(h), Len(h.stores) + 1, lines, 1, <<>>, 0)

\* the new store is the last one of the result
parse_lines(h, lines) ==
    parse_loop(ModelBlocks(h), Len(h.stores) + 1, lines, 1, <<>>, 0)

----------------------------------------------------------------------------
(* ModelBlocks.copy *)

\* [list(content) for content in value]: a new list of lines per occurrence
RECURSIVE copy_contents(_, _, _, _)
copy_contents(h, value, i, acc) ==
    IF i > Len(value) THEN [h |-> h, refs |-> acc]
    ELSE copy_contents(new_list(h, h.lines[value[i]]), value, i + 1,
                       Append(acc, Len(h.lines) + 1))

\* {key: [...] for key, value in self.blocks.items()}: a new dict of new lists
RECURSIVE copy_items(_, _, _, _)
copy_items(h, d, i, acc) ==
    IF i > Len(d) THEN [h |-> h, d |-> acc]
    ELSE LET r == copy_contents(h, h.occs[d[i].val], 1, <<>>)
         IN  copy_items([r.h EXCEPT !.occs = Append(@, r.refs)], d, i + 1,
                        Append(acc, [key |-> d[i].key, val |-> Len(r.h.occs) + 1]))

\* blocks=dict(self.blocks): the copy's names hold the original's lists
copy_shallow(h, s) ==
    [h EXCEPT !.logs = Append(@, h.logs[h.stores[s].change_log]),
              !.stores = Append(@, [blocks     |-> h.stores[s].blocks,
                                    change_log |-> Len(h.logs) + 1])]

\* change_log=self.change_log: the copy holds the original's log list
copy_shared_log(h, s) ==
    LET r == copy_items(h, h.stores[s].blocks, 1, <<>>)
    IN  [r.h EXCEPT !.stores = Append(@, [blocks     |-> r.d,
                                          change_log |-> h.stores[s].change_log])]

\* the copy is the last store of the result; list(self.change_log) is a new
\* list holding the same entry objects
copy(h, s) ==
    LET r == copy_items(h, h.stores[s].blocks, 1, <<>>)
    IN  [r.h EXCEPT !.logs = Append(@, h.logs[h.stores[s].change_log]),
                    !.stores = Append(@, [blocks     |-> r.d,
                                          change_log |-> Len(r.h.logs) + 1])]

----------------------------------------------------------------------------
(* The change-log file *)

occs_value(h, o) == [i \in 1..Len(h.occs[o]) |-> h.lines[h.occs[o][i]]]

\* json.dump([entry.__dict__ for entry in self.change_log]): the records hold
\* the values of the lists, under the dataclass's field names
json_dump(h, log) ==
    [i \in 1..Len(log) |->
        LET e == h.entries[log[i]]
        IN  [timestamp       |-> e.timestamp,
             block_name      |-> e.block_name,
             orginal_content |-> occs_value(h, e.orginal_content),
             updated_content |-> h.lines[e.updated_content]]]

save_change_log(h, s) ==
    [exists |-> TRUE, records |-> json_dump(h, h.logs[h.stores[s].change_log])]

\* json.load builds new lists; replay keeps only each record's updated_content
\* (refs[i] is 0 for a record without one)
RECURSIVE json_load(_, _, _, _)
json_load(h, records, i, acc) ==
    IF i > Len(records) THEN [h |-> h, refs |-> acc]
    ELSE IF "updated_content" \in DOMAIN records[i]
    THEN json_load(new_list(h, records[i].updated_content), records, i + 1,
                   Append(acc, Len(h.lines) + 1))
    ELSE json_load(h, records, i + 1, Append(acc, 0))

----------------------------------------------------------------------------
(* replay_changes *)

\* a record that lacks a field is passed over and the loop goes on
RECURSIVE replay_loop_skip_malformed(_, _, _, _, _)
replay_loop_skip_malformed(h, c, records, refs, i) ==
    IF i > Len(records) THEN [h |-> h, err |-> "none"]
    ELSE LET entry == records[i] IN
         IF "block_name" \notin DOMAIN entry \/ "updated_content" \notin DOMAIN entry
         THEN replay_loop_skip_malformed(h, c, records, refs, i + 1)
         ELSE LET r == update_block(h, c, entry.block_name, refs[i]) IN
              IF r.err # "none" THEN r
              ELSE IF "timestamp" \notin DOMAIN entry
              THEN [h |-> r.h, err |-> "KeyError"]
              ELSE replay_loop_skip_malformed(r.h, c, records, refs, i + 1)

RECURSIVE replay_loop(_, _, _, _, _)
replay_loop(h, c, records, refs, i) ==
    IF i > Len(records) THEN [h |-> h, err |-> "none"]
    ELSE LET entry == records[i] IN
         IF "block_name" \notin DOMAIN entry \/ "updated_content" \notin DOMAIN entry
         THEN [h |-> h, err |-> "KeyError"]
         ELSE LET r == update_block(h, c, entry.block_name, refs[i]) IN
              IF r.err # "none" THEN r
              ELSE IF "timestamp" \notin DOMAIN entry
              THEN [h |-> r.h, err |-> "KeyError"]
              ELSE replay_loop(r.h, c, records, refs, i + 1)

\* the loop runs over change_log[1:]
replay_changes_skip_first(h, model_blocks, f) ==
    LET h1 == copy(h, model_blocks)
        c  == Len(h1.stores)
    IN  IF ~f.exists
        THEN [h |-> h1, err |-> "FileNotFoundError", val |-> 0, local |-> c]
        ELSE LET l == json_load(h1, f.records, 1, <<>>)
                 r == replay_loop(l.h, c, f.records, l.refs, 2)
             IN  [h |-> r.h, err |-> r.err,
                  val |-> IF r.err = "none" THEN c ELSE 0, local |-> c]

\* the error of a failing entry is caught and the copy returned as it is
replay_changes_returns_partial(h, model_blocks, f) ==
    LET h1 == copy(h, model_blocks)
        c  == Len(h1.stores)
    IN  IF ~f.exists
        THEN [h |-> h1, err |-> "FileNotFoundError", val |-> 0, local |-> c]
        ELSE LET l == json_load(h1, f.records, 1, <<>>)
                 r == replay_loop(l.h, c, f.records, l.refs, 1)
             IN  [h |-> r.h, err |-> "none", val |-> c, local |-> c]

\* local is updated_model_blocks, val what the caller receives (0: nothing,
\* the call raised)
replay_changes(h, model_blocks, f) ==
    LET h1 == copy(h, model_blocks)
        c  == Len(h1.stores)
    IN  IF ~f.exists
        THEN [h |-> h1, err |-> "FileNotFoundError", val |-> 0, local |-> c]
        ELSE LET l == json_load(h1, f.records, 1, <<>>)
                 r == replay_loop(l.h, c, f.records, l.refs, 1)
             IN  [h |-> r.h, err |-> r.err,
                  val |-> IF r.err = "none" THEN c ELSE 0, local |-> c]

----------------------------------------------------------------------------
(* edit_model_blocks and the save callbacks *)

\* str.splitlines(keepends=True), for texts whose only line end is "\n"
RECURSIVE splitlines_from(_, _, _)
splitlines_from(s, i, cur) ==
    IF i > Len(s) THEN IF cur = <<>> THEN <<>> ELSE <<cur>>
    ELSE IF s[i] = "\n"
    THEN <<Append(cur, "\n")>> \o splitlines_from(s, i + 1, <<>>)
    ELSE splitlines_from(s, i + 1, Append(cur, s[i]))

splitlines(s) == splitlines_from(s, 1, <<>>)

\* the text the widget shows: the lines of all occurrences joined
original_text(h, block_content) ==
    join([i \in 1..Len(h.occs[block_content]) |->
             join(h.lines[h.occs[block_content][i]])])

\* a displayed widget holds its save_callback, a closure over the name (bound
\* as a default argument) and over updated_model_blocks
widget_edit_block(h, block_content, block_name, updated_model_blocks) ==
    [h EXCEPT !.widgets =
        Append(@, [block_name           |-> block_name,
                   updated_model_blocks |-> updated_model_blocks,
                   original_text        |-> original_text(h, block_content)])]

RECURSIVE edit_loop(_, _, _, _, _)
edit_loop(h, model_blocks, c, block_names, i) ==
    IF i > Len(block_names) THEN [h |-> h, err |-> "none"]
    ELSE IF ~has_key(h.stores[model_blocks].blocks, block_names[i])
    THEN [h |-> h, err |-> "ValueError"]
    ELSE edit_loop(widget_edit_block(h, get(h.stores[model_blocks].blocks,
                                            block_names[i]),
                                     block_names[i], c),
                   model_blocks, c, block_names, i + 1)

\* the callbacks read block_name when they run: each holds the last name
edit_model_blocks_late_binding(h, model_blocks, block_names) ==
    LET h1 == copy(h, model_blocks)
        c  == Len(h1.stores)
        r  == edit_loop(h1, model_blocks, c, block_names, 1)
        w  == [i \in 1..Len(r.h.widgets) |->
                  IF i > Len(h.widgets)
                  THEN [r.h.widgets[i] EXCEPT
                            !.block_name = r.h.widgets[Len(r.h.widgets)].block_name]
                  ELSE r.h.widgets[i]]
    IN  [h |-> [r.h EXCEPT !.widgets = w], err |-> r.err,
         val |-> IF r.err = "none" THEN c ELSE 0, local |-> c]

\* local is updated_model_blocks, val what the caller receives (0: nothing,
\* the call raised; the widgets displayed before the error stay)
edit_model_blocks(h, model_blocks, block_names) ==
    LET h1 == copy(h, model_blocks)
        c  == Len(h1.stores)
        r  == edit_loop(h1, model_blocks, c, block_names, 1)
    IN  [h |-> r.h, err |-> r.err,
         val |-> IF r.err = "none" THEN c ELSE 0, local |-> c]

\* save_callback(updated_content) of widget w
save_callback(h, w, updated_content) ==
    LET h1 == new_list(h, splitlines(updated_content))
    IN  update_block(h1, h.widgets[w].updated_model_blocks,
                     h.widgets[w].block_name, Len(h1.lines))

----------------------------------------------------------------------------
(* The calls a program makes *)

RECURSIVE SeqsUpTo(_, _)
SeqsUpTo(S, n) ==
    IF n = 0 THEN {<<>>}
    ELSE SeqsUpTo(S, n - 1) \cup
         {Append(q, x) : q \in {p \in SeqsUpTo(S, n - 1) : Len(p) = n - 1}, x \in S}

Texts == SeqsUpTo(Lines, MaxLen)
WideTexts == SeqsUpTo(WideLines, MaxLen + 1)
MarkerTexts == SeqsUpTo({LA, LB}, MaxLen)

\* a change log written in an earlier session, by json.dump as above
FileRecord(name, content) ==
    [timestamp |-> 0, block_name |-> name, orginal_content |-> <<content>>,
     updated_content |-> content]

\* records of a log written or edited by hand: without a timestamp, without
\* a block name, without the updated content
Unstamped(name, content) == [block_name |-> name, updated_content |-> content]

Unnamed(content) == [timestamp |-> 0, updated_content |-> content]

Contentless(name) == [timestamp |-> 0, block_name |-> name]

Files ==
    {[exists |-> FALSE, records |-> <<>>]} \cup
    {[exists |-> TRUE, records |-> q] :
        q \in {<<FileRecord(NameA, <<LY, LX>>)>>,
               <<FileRecord(NameA, <<LY, LX>>), FileRecord(NameB, <<LA>>)>>,
               <<FileRecord(NameB, <<LA>>), FileRecord(NameA, <<LY, LX>>)>>,
               <<Unstamped(NameA, <<LA>>), FileRecord(NameA, <<LY, LX>>)>>,
               <<FileRecord(NameA, <<LY, LX>>), Contentless(NameA),
                 FileRecord(NameA, <<LA>>)>>,
               <<FileRecord(NameB, <<LA>>), Unnamed(<<LY, LX>>)>>}}

Stores == 1..Len(heap.stores)

\* the stores and the lists of lines allocated so far
heap_size == Len(heap.stores) + Len(heap.lines)

Call(op, s, name, content, err, val, local, out) ==
    [op |-> op, self |-> s, name |-> name, content |-> content, err |-> err,
     val |-> val, local |-> local, out |-> out]

NoCall == Call("none", 0, <<>>, 0, "none", 0, 0, <<>>)

Init ==
    /\ text \in Texts
    /\ heap = EmptyHeap
    /\ origin = <<>>
    /\ file = [exists |-> FALSE, records |-> <<>>]
    /\ ret = NoCall

InitReplay ==
    /\ text \in MarkerTexts
    /\ heap = EmptyHeap
    /\ origin = <<>>
    /\ file \in Files
    /\ ret = NoCall

InitText ==
    /\ text \in WideTexts
    /\ heap = EmptyHeap
    /\ origin = <<>>
    /\ file = [exists |-> FALSE, records |-> <<>>]
    /\ ret = NoCall

Parse ==
    /\ heap_size < MaxHeap
    /\ heap' = parse_lines(heap, text)
    /\ origin' = Append(origin, 0)
    /\ ret' = Call("_parse_lines", 0, <<>>, 0, "none", Len(heap.stores) + 1, 0, <<>>)
    /\ UNCHANGED <<text, file>>

AddBlock(s, name, content) ==
    /\ heap_size < MaxHeap
    /\ heap' = add_block(new_list(heap, content), s, name, Len(heap.lines) + 1)
    /\ ret' = Call("add_block", s, name, Len(heap.lines) + 1, "none", 0, 0, <<>>)
    /\ UNCHANGED <<text, origin, file>>

\* new_content is a list the caller has just built; when the call raises,
\* nothing holds that list any more and it leaves the heap
UpdateBlock(s, name, content) ==
    /\ heap_size < MaxHeap
    /\ LET r == update_block(new_list(heap, content), s, name, Len(heap.lines) + 1)
       IN  /\ heap' = IF r.err = "none" THEN r.h ELSE heap
           /\ ret' = Call("update_block", s, name,
                          IF r.err = "none" THEN Len(heap.lines) + 1 ELSE 0,
                          r.err, 0, 0, <<>>)
    /\ UNCHANGED <<text, origin, file>>

\* a direct call: the caller hands over lists of its own
LogChange(s, name, original, updated) ==
    /\ heap_size + 1 < MaxHeap
    /\ LET h1 == new_list(new_list(heap, original), updated)
           h2 == [h1 EXCEPT !.occs = Append(@, <<Len(heap.lines) + 1>>)]
       IN  heap' = log_change(h2, s, name, Len(h2.occs), Len(heap.lines) + 2)
    /\ ret' = Call("log_change", s, name, Len(heap.lines) + 2, "none", 0, 0, <<>>)
    /\ UNCHANGED <<text, origin, file>>

Copy(s) ==
    /\ heap_size < MaxHeap
    /\ heap' = copy(heap, s)
    /\ origin' = Append(origin, s)
    /\ ret' = Call("copy", s, <<>>, 0, "none", Len(heap.stores) + 1, 0, <<>>)
    /\ UNCHANGED <<text, file>>

Render(s) ==
    /\ ret' = Call("render", s, <<>>, 0, "none", 0, 0, render(heap, s))
    /\ UNCHANGED <<text, heap, origin, file>>

SaveChangeLog(s) ==
    /\ file' = save_change_log(heap, s)
    /\ ret' = Call("save_change_log", s, <<>>, 0, "none", 0, 0, <<>>)
    /\ UNCHANGED <<text, heap, origin>>

\* a behaviour holds one replay, which may come when the heap is full
Replay(s) ==
    /\ \A t \in Stores : origin[t] = 0
    /\ LET r == replay_changes(heap, s, file)
       IN  /\ heap' = r.h
           /\ ret' = Call("replay_changes", s, <<>>, 0, r.err, r.val, r.local, <<>>)
    /\ origin' = Append(origin, s)
    /\ UNCHANGED <<text, file>>

\* the block store and its change log
Next ==
    \/ Parse
    \/ \E s \in Stores, name \in Names : AddBlock(s, name, <<LX>>)
    \/ \E s \in Stores, name \in Names, content \in Contents : UpdateBlock(s, name, content)
    \/ \E s \in Stores, name \in Names : LogChange(s, name, <<LX>>, <<LA>>)
    \/ \E s \in Stores : Copy(s)
    \/ \E s \in Stores : Render(s)

Spec == Init /\ [][Next]_vars

\* recording a change log and replaying it
NextReplay ==
    \/ Parse
    \/ \E s \in Stores, name \in Names, content \in Contents : UpdateBlock(s, name, content)
    \/ \E s \in Stores : SaveChangeLog(s)
    \/ \E s \in Stores : Replay(s)

SpecReplay == InitReplay /\ [][NextReplay]_vars

\* parsing a text and rendering it back
NextText ==
    \/ Parse
    \/ \E s \in Stores : Render(s)

SpecText == InitText /\ [][NextText]_vars

\* texts of marker lines, long enough for a store of two names at MaxLen = 1
EditableTexts == SeqsUpTo({LA, LB}, MaxLen + 1)

\* the block_names argument of edit_model_blocks
NameLists == {<<NameA>>, <<NameB>>, <<NameA, NameB>>, <<NameB, NameA>>}

\* what the user leaves in the edit area before pressing Save
EditTexts == {<<>>, <<"$", "A">>, LY \o LX}

InitEdit ==
    /\ text \in EditableTexts
    /\ heap = EmptyHeap
    /\ origin = <<>>
    /\ file = [exists |-> FALSE, records |-> <<>>]
    /\ ret = NoCall

EditModelBlocks(s, block_names) ==
    /\ heap_size < MaxHeap
    /\ LET r == edit_model_blocks(heap, s, block_names)
       IN  /\ heap' = r.h
           /\ ret' = Call("edit_model_blocks", s, <<>>, 0, r.err, r.val, r.local,
                          block_names)
    /\ origin' = Append(origin, s)
    /\ UNCHANGED <<text, file>>

\* on_save_clicked of widget w, the edit area holding updated_content
Save(w, updated_content) ==
    /\ Len(heap.entries) < MaxSave
    /\ LET r == save_callback(heap, w, updated_content)
       IN  /\ heap' = IF r.err = "none" THEN r.h ELSE heap
           /\ ret' = Call("save_callback", heap.widgets[w].updated_model_blocks,
                          heap.widgets[w].block_name,
                          IF r.err = "none" THEN Len(heap.lines) + 1 ELSE 0,
                          r.err, w, 0, updated_content)
    /\ UNCHANGED <<text, origin, file>>

\* editing in the notebook: the callbacks run when the user presses Save
NextEdit ==
    \/ Parse
    \/ \E s \in Stores, block_names \in NameLists : EditModelBlocks(s, block_names)
    \/ \E w \in 1..Len(heap.widgets), t \in EditTexts : Save(w, t)

SpecEdit == InitEdit /\ [][NextEdit]_vars

----------------------------------------------------------------------------
(* What a caller can read from a store: values, without object identity *)

blocks_value(h, s) ==
    LET d == h.stores[s].blocks
    IN  [i \in 1..Len(d) |-> [key |-> d[i].key, val |-> occs_value(h, d[i].val)]]

log_value(h, s) ==
    LET log == h.logs[h.stores[s].change_log]
    IN  [i \in 1..Len(log) |->
            LET e == h.entries[log[i]]
            IN  [timestamp        |-> e.timestamp,
                 block_name       |-> e.block_name,
                 original_content |-> occs_value(h, e.orginal_content),
                 updated_content  |-> h.lines[e.updated_content]]]

\* the entries without their timestamps
log_contents(h, s) ==
    LET lv == log_value(h, s)
    IN  [i \in 1..Len(lv) |-> [block_name       |-> lv[i].block_name,
                               original_content |-> lv[i].original_content,
                               updated_content  |-> lv[i].updated_content]]

store_value(h, s) == [blocks |-> blocks_value(h, s), change_log |-> log_value(h, s)]

keys(bv) == {bv[i].key : i \in 1..Len(bv)}

occurrences(bv, name) == bv[CHOOSE i \in 1..Len(bv) : bv[i].key = name].val

IsPrefix(p, q) == Len(p) <= Len(q) /\ SubSeq(q, 1, Len(p)) = p

is_marker(line) == startswith(strip(line), "$")

\* what the update operation is to do, on values
v_update(bv, name, content) ==
    [i \in 1..Len(bv) |->
        IF bv[i].key = name THEN [key |-> name, val |-> <<content>>] ELSE bv[i]]

v_entry(bv, name, content) ==
    [block_name       |-> name,
     original_content |-> occurrences(bv, name),
     updated_content  |-> content]

\* the first n records applied in order to the value v = [blocks, log]
RECURSIVE v_replay(_, _, _)
v_replay(v, records, n) ==
    IF n = 0 THEN v
    ELSE LET w == v_replay(v, records, n - 1)
             e == records[n]
         IN  [blocks |-> v_update(w.blocks, e.block_name, e.updated_content),
              log    |-> Append(w.log,
                                v_entry(w.blocks, e.block_name, e.updated_content))]

\* what stops the replay of a record onto blocks with the names of bv
defect(bv, e) ==
    IF "block_name" \notin DOMAIN e \/ "updated_content" \notin DOMAIN e
    THEN "malformed"
    ELSE IF e.block_name \notin keys(bv) THEN "missing"
    ELSE IF "timestamp" \notin DOMAIN e THEN "unstamped"
    ELSE "none"

\* the index of the first record that stops the replay, 0 if none does
first_defect(bv, records) ==
    LET bad == {i \in 1..Len(records) : defect(bv, records[i]) # "none"}
    IN  IF bad = {} THEN 0 ELSE CHOOSE i \in bad : \A j \in bad : i <= j

\* the index of the first record whose block is not in the store, when the
\* replay gets that far; 0 if none
first_missing(bv, records) ==
    LET k == first_defect(bv, records)
    IN  IF k > 0 /\ defect(bv, records[k]) = "missing" THEN k ELSE 0

\* the store that _parse_lines builds from the text, as a value
FreshValue == store_value(parse_lines(EmptyHeap, text), 1)

----------------------------------------------------------------------------
(* C1. Replay equivalence: when the file holds the serialised change log of *)
(* a store S that was parsed from the text and then only updated, replaying *)
(* it onto a fresh parse of the same text succeeds and returns a store      *)
(* whose render() is that of S.  (Under SpecReplay every store is parsed    *)
(* from the text and changed by update_block alone.)                        *)
ReplayEquivalence ==
    \A S \in Stores :
        (/\ ret.op = "replay_changes"
         /\ file.exists
         /\ file.records = json_dump(heap, heap.logs[heap.stores[S].change_log])
         /\ store_value(heap, ret.self) = FreshValue)
        => /\ ret.err = "none"
           /\ ret.val \in Stores
           /\ render(heap, ret.val) = render(heap, S)

\* two direct updates were recorded, saved, and replayed onto another parse
ReplayEquivalenceWitness ==
    \E S \in Stores :
        /\ ret.op = "replay_changes"
        /\ ret.err = "none"
        /\ S # ret.self
        /\ file.exists
        /\ Len(file.records) = 2
        /\ file.records = json_dump(heap, heap.logs[heap.stores[S].change_log])
        /\ store_value(heap, ret.self) = FreshValue
        /\ render(heap, S) # render(heap, ret.self)

----------------------------------------------------------------------------
(* C2. update_block(name, content) on a store holding k >= 1 occurrences    *)
(* under name succeeds, leaves exactly the one occurrence content under     *)
(* name, and appends exactly one log entry: block_name = name, updated      *)
(* content = content, original content = the k occurrences held before.     *)
UpdateBlockPost ==
    [][(/\ ret'.op = "update_block"
        /\ has_key(heap.stores[ret'.self].blocks, ret'.name))
       => LET s == ret'.self
              n == ret'.name
              c == heap'.lines[ret'.content]
          IN  /\ ret'.err = "none"
              /\ n \in keys(blocks_value(heap', s))
              /\ occurrences(blocks_value(heap', s), n) = <<c>>
              /\ log_contents(heap', s) =
                     Append(log_contents(heap, s), v_entry(blocks_value(heap, s), n, c))
      ]_vars

\* an update that collapsed at least two occurrences
UpdateBlockWitness ==
    /\ ret.op = "update_block"
    /\ ret.err = "none"
    /\ LET lv == log_value(heap, ret.self)
       IN  /\ lv # <<>>
           /\ Len(lv[Len(lv)].original_content) >= 2
           /\ lv[Len(lv)].block_name = ret.name

----------------------------------------------------------------------------
(* C3. update_block on a name the store does not hold fails with the        *)
(* block-not-found error and changes no store: names and their order,       *)
(* occurrences and change log are as before, and no store is created.       *)
UpdateUnknownFails ==
    [][(/\ ret'.op = "update_block"
        /\ ~has_key(heap.stores[ret'.self].blocks, ret'.name))
       => /\ ret'.err = "ValueError"
          /\ Len(heap'.stores) = Len(heap.stores)
          /\ \A s \in Stores : store_value(heap', s) = store_value(heap, s)
      ]_vars

\* a refused update of a store that holds another block
UpdateUnknownWitness ==
    /\ ret.op = "update_block"
    /\ ret.err = "ValueError"
    /\ heap.stores[ret.self].blocks # <<>>
    /\ ~has_key(heap.stores[ret.self].blocks, ret.name)

----------------------------------------------------------------------------
(* C4. Copy independence: copy() returns a store with the names, order,     *)
(* occurrences, lines and change-log entries of the original and changes    *)
(* no existing store; afterwards add_block and update_block on the copy     *)
(* leave the original's blocks and change log as they were, and the same    *)
(* calls on the original leave the copy's.                                  *)
CopyIndependence ==
    [][/\ ret'.op = "copy"
          => /\ ret'.val = Len(heap.stores) + 1
             /\ store_value(heap', ret'.val) = store_value(heap, ret'.self)
             /\ \A s \in Stores : store_value(heap', s) = store_value(heap, s)
       /\ ret'.op \in {"add_block", "update_block"}
          => \A t \in Stores :
                 (origin[t] = ret'.self \/ origin[ret'.self] = t)
                 => store_value(heap', t) = store_value(heap, t)
      ]_vars

\* a block added to a copy of a store that holds a block of that name
CopyIndependenceWitness ==
    /\ ret.op = "add_block"
    /\ origin[ret.self] # 0
    /\ has_key(heap.stores[origin[ret.self]].blocks, ret.name)
    /\ store_value(heap, ret.self) # store_value(heap, origin[ret.self])

----------------------------------------------------------------------------
\* a text of marker-delimited blocks: its first line is a marker line
WellFormed(t) == t # <<>> /\ is_marker(t[1])

\* all blocks of the text carry the same name
OneName(t) ==
    \A i, j \in 1..Len(t) :
        (is_marker(t[i]) /\ is_marker(t[j]))
        => first_token(strip(t[i])) = first_token(strip(t[j]))

(* C5. Round trip.  As claimed: for a text of marker-delimited blocks       *)
(* (its first line a marker line), render(parse(text)) = text.strip().      *)
(* Under SpecText every store is the parse of the text.                     *)
RoundTrip ==
    (ret.op = "render" /\ WellFormed(text)) => ret.out = strip(join(text))

\* C5 as amended: the round trip holds when all blocks of the text carry
\* the same name (render() puts a newline after each name's occurrences)
RoundTripOneName ==
    (ret.op = "render" /\ WellFormed(text) /\ OneName(text))
    => ret.out = strip(join(text))

\* the render of a text with two blocks of one name
RoundTripWitness ==
    /\ ret.op = "render"
    /\ WellFormed(text)
    /\ OneName(text)
    /\ Len(text) = 2
    /\ is_marker(text[2])

----------------------------------------------------------------------------
----------------------------------------------------------------------------
(* C7. replay_changes changes no existing store, the target included,       *)
(* whether it completes or fails; when it completes it returns a new store  *)
(* whose blocks and log are those of the target with every record of the    *)
(* file applied as an update, in the file's order.                          *)
ReplayFrame ==
    [][ret'.op = "replay_changes"
       => /\ \A s \in Stores : store_value(heap', s) = store_value(heap, s)
          /\ ret'.err = "none"
             => LET v == v_replay([blocks |-> blocks_value(heap, ret'.self),
                                   log    |-> log_contents(heap, ret'.self)],
                                  file.records, Len(file.records))
                IN  /\ ret'.val = Len(heap.stores) + 1
                    /\ blocks_value(heap', ret'.val) = v.blocks
                    /\ log_contents(heap', ret'.val) = v.log
      ]_vars

\* a completed replay of two records onto a store with a change log
ReplayFrameWitness ==
    /\ ret.op = "replay_changes"
    /\ ret.err = "none"
    /\ Len(file.records) = 2
    /\ log_value(heap, ret.self) # <<>>

----------------------------------------------------------------------------
\* the number of records applied to the copy c of the target t
applied(h, c, t) == Len(log_value(h, c)) - Len(log_value(h, t))

(* C8. Replay onto a store that lacks a record's block.  As claimed: the    *)
(* replay fails and the state with the earlier records applied is           *)
(* observable to the caller, that is, through the returned store or         *)
(* through a store that existed before the call.                            *)
ReplayPartialObservable ==
    [][(/\ ret'.op = "replay_changes"
        /\ ret'.err = "ValueError"
        /\ applied(heap', ret'.local, ret'.self) >= 1)
       => \/ ret'.val # 0
          \/ \E s \in Stores : store_value(heap', s) # store_value(heap, s)
      ]_vars

\* C8 as amended: the replay fails with the block-not-found error at the
\* first record whose block the target lacks; the earlier records have been
\* applied to replay's own copy only, which is not returned: the caller
\* receives no store and every store it holds is unchanged
ReplayFailsOnCopy ==
    [][LET k == first_missing(blocks_value(heap, ret'.self), file.records)
       IN  (ret'.op = "replay_changes" /\ file.exists /\ k > 0)
           => LET v == v_replay([blocks |-> blocks_value(heap, ret'.self),
                                 log    |-> log_contents(heap, ret'.self)],
                                file.records, k - 1)
              IN  /\ ret'.err = "ValueError"
                  /\ ret'.val = 0
                  /\ ret'.local = Len(heap.stores) + 1
                  /\ blocks_value(heap', ret'.local) = v.blocks
                  /\ log_contents(heap', ret'.local) = v.log
                  /\ \A s \in Stores : store_value(heap', s) = store_value(heap, s)
      ]_vars

\* a replay that failed at its second record
ReplayFailsWitness ==
    /\ ret.op = "replay_changes"
    /\ ret.err = "ValueError"
    /\ applied(heap, ret.local, ret.self) = 1
    /\ Len(file.records) = 2

----------------------------------------------------------------------------
\* per name in order: the lines of all its occurrences, then a newline
RECURSIVE render_value(_)
render_value(bv) ==
    IF bv = <<>> THEN <<>>
    ELSE join([i \in 1..Len(bv[1].val) |-> join(bv[1].val[i])]) \o <<"\n">>
         \o render_value(Tail(bv))

(* C9. render().  As claimed: the lines of all occurrences of each name in  *)
(* first-seen order, a newline after each name, and only the trailing       *)
(* whitespace of the result removed.                                        *)
RenderTrailingOnly ==
    ret.op = "render" => ret.out = rstrip(render_value(blocks_value(heap, ret.self)))

\* C9 as amended: the leading and the trailing whitespace of the result are
\* removed, all characters between them returned as stored
RenderStripped ==
    ret.op = "render" => ret.out = strip(render_value(blocks_value(heap, ret.self)))

\* the render of a store of two names whose first line starts with a space
RenderWitness ==
    /\ ret.op = "render"
    /\ Len(heap.stores[ret.self].blocks) = 2
    /\ Head(render_value(blocks_value(heap, ret.self))) = " "

----------------------------------------------------------------------------
(* C10. Parsing lines none of which is a marker line, the empty input       *)
(* included, yields a store with no block names and an empty change log.    *)
NoMarkerEmpty ==
    (ret.op = "_parse_lines" /\ \A i \in 1..Len(text) : ~is_marker(text[i]))
    => /\ heap.stores[ret.val].blocks = <<>>
       /\ heap.logs[heap.stores[ret.val].change_log] = <<>>

\* the parse of two lines that are no marker lines
NoMarkerWitness ==
    /\ ret.op = "_parse_lines"
    /\ Len(text) = 2
    /\ \A i \in 1..Len(text) : ~is_marker(text[i])

----------------------------------------------------------------------------
(* C11. Serialising a change log yields one record per entry in the order   *)
(* the entries were logged, each record with the fields timestamp,          *)
(* block_name, original_content and updated_content, holding the values of  *)
(* the entry.                                                               *)
SerialisedRecords ==
    ret.op = "save_change_log"
    => LET lv == log_value(heap, ret.self)
       IN  /\ file.exists
           /\ Len(file.records) = Len(lv)
           /\ \A i \in 1..Len(lv) :
                  /\ DOMAIN file.records[i] =
                         {"timestamp", "block_name", "original_content",
                          "updated_content"}
                  /\ file.records[i].block_name = lv[i].block_name
                  /\ file.records[i].original_content = lv[i].original_content
                  /\ file.records[i].updated_content = lv[i].updated_content

----------------------------------------------------------------------------
(* The blocks of a text, read off the text itself *)

marker_lines(t) == {i \in 1..Len(t) : is_marker(t[i])}

marker_name(line) == first_token(strip(line))

markers_named(t, name) == {i \in marker_lines(t) : marker_name(t[i]) = name}

\* the last line before the next marker line, or the last line of the text
block_end(t, i) ==
    CHOOSE j \in i..Len(t) :
        /\ \A k \in (i + 1)..j : ~is_marker(t[k])
        /\ j = Len(t) \/ is_marker(t[j + 1])

source_block(t, i) == SubSeq(t, i, block_end(t, i))

\* the members of a set of numbers in increasing order
ascending(S) ==
    CHOOSE f \in [1..Cardinality(S) -> S] :
        \A a, b \in 1..Cardinality(S) : a < b => f[a] < f[b]

\* the occurrence stored for the block that starts at marker line i
stored_block(bv, t, i) ==
    occurrences(bv, marker_name(t[i]))
        [Cardinality({j \in markers_named(t, marker_name(t[i])) : j <= i})]

----------------------------------------------------------------------------
(* C13. A store's blocks are mutated only through the update operation,     *)
(* which appends a change-log entry in the same step: in every step of      *)
(* add_block, update_block, render and copy, a store whose blocks differ    *)
(* before and after the step has gained exactly one log entry in that step. *)
BlocksChangeLogged ==
    [][ret'.op \in {"add_block", "update_block", "render", "copy"}
       => \A s \in Stores :
              blocks_value(heap', s) # blocks_value(heap, s)
              => /\ Len(log_value(heap', s)) = Len(log_value(heap, s)) + 1
                 /\ IsPrefix(log_value(heap, s), log_value(heap', s))
      ]_vars

\* C13 as amended: blocks change through add_block and update_block alone,
\* and only on the store of the call; update_block appends exactly one log
\* entry in the same step, add_block leaves the change log as it was
BlocksChangeByAddOrUpdate ==
    [][ret'.op \in {"add_block", "update_block", "render", "copy"}
       => \A s \in Stores :
              blocks_value(heap', s) # blocks_value(heap, s)
              => /\ s = ret'.self
                 /\ ret'.op \in {"add_block", "update_block"}
                 /\ ret'.op = "update_block"
                    => /\ Len(log_value(heap', s)) = Len(log_value(heap, s)) + 1
                       /\ IsPrefix(log_value(heap, s), log_value(heap', s))
                 /\ ret'.op = "add_block"
                    => log_value(heap', s) = log_value(heap, s)
      ]_vars

\* an update that changed the blocks of its store, after an add_block on it
BlocksChangeWitness ==
    /\ ret.op = "update_block"
    /\ ret.err = "none"
    /\ LET lv == log_value(heap, ret.self)
       IN  /\ lv # <<>>
           /\ lv[Len(lv)].original_content # <<lv[Len(lv)].updated_content>>
           /\ Len(lv[Len(lv)].original_content) >
                  Cardinality(markers_named(text, ret.name))

----------------------------------------------------------------------------
(* The list objects a store reaches *)

\* the lists of lines held as occurrences of the store's blocks
block_lists(h, s) ==
    LET d == h.stores[s].blocks
    IN  UNION {{h.occs[d[i].val][j] : j \in 1..Len(h.occs[d[i].val])} :
               i \in 1..Len(d)}

\* the lists of lines held by the entries of the store's change log
log_lists(h, s) ==
    LET log == h.logs[h.stores[s].change_log]
    IN  UNION {LET e == h.entries[log[i]]
               IN  {e.updated_content} \cup
                   {h.occs[e.orginal_content][j] :
                        j \in 1..Len(h.occs[e.orginal_content])} :
               i \in 1..Len(log)}

line_lists(h, s) == block_lists(h, s) \cup log_lists(h, s)

(* C14. Deep copy: after C = S.copy(), no list of lines reachable from C    *)
(* through its block occurrences or through the original and updated        *)
(* content of its change-log entries is the same object as a list of lines  *)
(* reachable from S.                                                        *)
CopySharesNoLineList ==
    ret.op = "copy"
    => line_lists(heap, ret.val) \cap line_lists(heap, ret.self) = {}

----------------------------------------------------------------------------
(* C15. Replay needs only block_name and updated_content of a record, the   *)
(* timestamp being read for reporting only: replaying a log whose records   *)
(* all have block_name and updated_content and name blocks of the target    *)
(* completes and applies every record, with or without timestamps.          *)
ReplayNeedsNoTimestamp ==
    (/\ ret.op = "replay_changes"
     /\ file.exists
     /\ \A i \in 1..Len(file.records) :
            defect(blocks_value(heap, ret.self), file.records[i])
                \in {"none", "unstamped"})
    => /\ ret.err = "none"
       /\ ret.val \in Stores
       /\ applied(heap, ret.local, ret.self) = Len(file.records)

----------------------------------------------------------------------------
(* C16. When the replay meets a record that lacks block_name or             *)
(* updated_content it raises an error at once and stops at that record:     *)
(* the record is not applied, no later record is applied, and the records   *)
(* before it have all been applied, in order (to the copy the replay works  *)
(* on; no store is returned).                                               *)
ReplayAbortsAtMalformed ==
    [][LET bv == blocks_value(heap, ret'.self)
           k  == first_defect(bv, file.records)
       IN  (/\ ret'.op = "replay_changes"
            /\ file.exists
            /\ k > 0
            /\ defect(bv, file.records[k]) = "malformed")
           => LET v == v_replay([blocks |-> bv,
                                 log    |-> log_contents(heap, ret'.self)],
                                file.records, k - 1)
              IN  /\ ret'.err = "KeyError"
                  /\ ret'.val = 0
                  /\ ret'.local = Len(heap.stores) + 1
                  /\ blocks_value(heap', ret'.local) = v.blocks
                  /\ log_contents(heap', ret'.local) = v.log
      ]_vars

\* a replay stopped at its second record, with a third one after it
ReplayAbortsWitness ==
    /\ ret.op = "replay_changes"
    /\ ret.err = "KeyError"
    /\ Len(file.records) = 3
    /\ first_defect(blocks_value(heap, ret.self), file.records) = 2
    /\ defect(blocks_value(heap, ret.self), file.records[2]) = "malformed"
    /\ applied(heap, ret.local, ret.self) = 1

----------------------------------------------------------------------------
\* the names of a store in iteration order
key_order(bv) == [i \in 1..Len(bv) |-> bv[i].key]

(* C17. Frame of the mutators.  A successful update_block(name, content)    *)
(* changes only the occurrence list of name: the order of the block names,  *)
(* the position of name included, and the occurrences of every other name   *)
(* stay as they were.  add_block(name, content) only appends one occurrence *)
(* at the end of name's list, adding name as the last name when it is new,  *)
(* and leaves the occurrences of the other names, the earlier occurrences   *)
(* of name and the change log unchanged.                                    *)
MutatorFrame ==
    [][LET s   == ret'.self
           n   == ret'.name
           bv  == blocks_value(heap, s)
           bvn == blocks_value(heap', s)
       IN  /\ (ret'.op = "update_block" /\ ret'.err = "none")
              => /\ key_order(bvn) = key_order(bv)
                 /\ \A i \in 1..Len(bv) : bv[i].key # n => bvn[i] = bv[i]
           /\ ret'.op = "add_block"
              => LET c == heap'.lines[ret'.content]
                 IN  /\ IF n \in keys(bv)
                        THEN /\ key_order(bvn) = key_order(bv)
                             /\ occurrences(bvn, n) = Append(occurrences(bv, n), c)
                             /\ \A i \in 1..Len(bv) : bv[i].key # n => bvn[i] = bv[i]
                        ELSE bvn = Append(bv, [key |-> n, val |-> <<c>>])
                     /\ log_value(heap', s) = log_value(heap, s)
      ]_vars

\* an update of the first of two names
MutatorFrameWitness ==
    /\ ret.op = "update_block"
    /\ ret.err = "none"
    /\ Len(heap.stores[ret.self].blocks) = 2
    /\ heap.stores[ret.self].blocks[1].key = ret.name

----------------------------------------------------------------------------
\* ls are the lines of the text t, each with its line end
is_split(ls, t) ==
    /\ join(ls) = t
    /\ \A i \in 1..Len(ls) :
           /\ ls[i] # <<>>
           /\ \A k \in 1..(Len(ls[i]) - 1) : ls[i][k] # "\n"
           /\ i < Len(ls) => ls[i][Len(ls[i])] = "\n"

(* C18. The save callbacks of edit_model_blocks.  For a store M and names   *)
(* that all exist in M, the call returns one new store with the content of  *)
(* M and leaves one callback per name, all bound to that store.  The        *)
(* callbacks may fire in any order and any number of times; each firing of  *)
(* the callback for n with the text t performs update_block(n, the lines of *)
(* t with their line ends) on that store: it replaces block n and no other, *)
(* appends exactly one log entry for n, and never changes the blocks or the *)
(* change log of M.                                                         *)
SaveCallbacks ==
    [][/\ (ret'.op = "edit_model_blocks" /\ ret'.err = "none")
          => LET c  == ret'.val
                 n0 == Len(heap.widgets)
             IN  /\ c = Len(heap.stores) + 1
                 /\ Len(heap'.stores) = c
                 /\ store_value(heap', c) = store_value(heap, ret'.self)
                 /\ \A s \in Stores : store_value(heap', s) = store_value(heap, s)
                 /\ Len(heap'.widgets) = n0 + Len(ret'.out)
                 /\ SubSeq(heap'.widgets, 1, n0) = heap.widgets
                 /\ \A i \in 1..Len(ret'.out) :
                        /\ heap'.widgets[n0 + i].block_name = ret'.out[i]
                        /\ heap'.widgets[n0 + i].updated_model_blocks = c
       /\ ret'.op = "save_callback"
          => LET w  == heap.widgets[ret'.val]
                 c  == w.updated_model_blocks
                 n  == w.block_name
             IN  /\ ret'.err = "none"
                 /\ heap'.widgets = heap.widgets
                 /\ origin[c] \in Stores \ {c}
                 /\ is_split(heap'.lines[ret'.content], ret'.out)
                 /\ blocks_value(heap', c) =
                        v_update(blocks_value(heap, c), n, heap'.lines[ret'.content])
                 /\ log_contents(heap', c) =
                        Append(log_contents(heap, c),
                               v_entry(blocks_value(heap, c), n,
                                       heap'.lines[ret'.content]))
                 /\ \A s \in Stores \ {c} :
                        store_value(heap', s) = store_value(heap, s)
      ]_vars

\* the callbacks of two names have fired on one store, the second name's
\* first, with a text of two lines
SaveCallbacksWitness ==
    /\ ret.op = "save_callback"
    /\ ret.val = 1
    /\ Len(heap.widgets) = 2
    /\ heap.widgets[1].updated_model_blocks = heap.widgets[2].updated_model_blocks
    /\ LET lv == log_value(heap, ret.self)
       IN  /\ Len(lv) = 2
           /\ lv[1].block_name = heap.widgets[2].block_name
           /\ lv[2].block_name = heap.widgets[1].block_name
           /\ lv[1].block_name # lv[2].block_name
           /\ Len(lv[2].updated_content) = 2

====
